---- MODULE Spec2Model ----
(***************************************************************************)
(* Verification model of the training driver seml_scripts/graph_clsreg.py  *)
(* (get_deg_hist and run) and of DeeperGCN.forward of the repository       *)
(* synthetic_coordinates.  Three specifications share the module:          *)
(*   SpecHist  get_deg_hist over a list of training graphs                 *)
(*   SpecRun   run(...) from its configuration to the created model        *)
(*   SpecFwd   one DeeperGCN.forward call                                  *)
(* Optional attributes / optional values are sequences of length 0         *)
(* (absent, None) or 1 (present).                                          *)
(***************************************************************************)
EXTENDS Integers, Sequences, FiniteSets, TLC

VARIABLES
    \* ---- get_deg_hist
    train_list,   \* the argument: a sequence of graphs
    idx,          \* number of graphs the for loop has fetched
    data,         \* the loop variable (<<>> before the first fetch)
    d,            \* the local d, the degree vector of the current graph
    deg,          \* the accumulated histogram
    warnings,     \* number of 'Invalid graph' lines printed
    hpc,          \* position in get_deg_hist
    \* ---- run
    cfg,          \* the configuration run was called with
    transforms,   \* the local list transforms
    angle_mode,   \* the local linegraph_angle_mode (run may overwrite it)
    bound,        \* names of the conditionally assigned locals that are bound
    ctor,         \* the DeeperGCN(...) call of line 423: called, ok, binding
    outcome,      \* "running", "ok" or the exception that left run
    rpc,          \* position in run
    \* ---- DeeperGCN.forward
    num_layers,   \* self.num_layers
    mol_data,     \* self.mol_data
    training,     \* self.training
    layer,        \* the loop variable of forward
    h,            \* id of the tensor the local h holds
    h1,           \* id of the tensor the local h1 holds
    h2,           \* id of the tensor the local h2 holds
    fresh,        \* next unused tensor id
    trace,        \* the module applications of this call, in order
    fpc           \* position in forward

histVars == <<train_list, idx, data, d, deg, warnings, hpc>>
runVars == <<cfg, transforms, angle_mode, bound, ctor, outcome, rpc>>
fwdVars == <<num_layers, mol_data, training, layer, h, h1, h2, fresh, trace, fpc>>
vars == <<histVars, runVars, fwdVars>>

(***************************************************************************)
(* Bounds of the model                                                     *)
(***************************************************************************)
MaxGraphs == 2      \* longest train_list
MaxNodes == 2       \* most rows of data.x
MaxDeg == 10        \* largest in-degree of a node of a generated graph
MaxLayers == 5      \* largest num_layers

(***************************************************************************)
(* get_deg_hist                                                            *)
(***************************************************************************)
\* torch.zeros(10, ...): the number of bins of the accumulator
NumBins == 10

Zeros(n) == [k \in 1..n |-> 0]

Rep(v, n) == [k \in 1..n |-> v]

Max(a, b) == IF a >= b THEN a ELSE b

RECURSIVE SeqMax(_)
SeqMax(s) == IF s = <<>> THEN 0 ELSE Max(Head(s), SeqMax(Tail(s)))

\* torch_geometric.utils.degree(index, num_nodes): a vector of num_nodes
\* counters, counter n the number of entries of index equal to n; the
\* scatter_add_ raises when an entry of index is not a row of the result.
degree(index, num_nodes) ==
    IF \E i \in DOMAIN index : index[i] < 0 \/ index[i] >= num_nodes
    THEN [ok |-> FALSE, val |-> <<>>]
    ELSE [ok |-> TRUE,
          val |-> [n \in 1..num_nodes |->
                     Cardinality({i \in DOMAIN index : index[i] = n - 1})]]

\* torch.bincount(d, minlength): entry k counts the entries of d equal to k;
\* the result has max(d) + 1 entries, and at least minlength
bincount(v, minlength) ==
    LET len == IF v = <<>> THEN minlength ELSE Max(SeqMax(v) + 1, minlength)
    IN  [k \in 1..len |-> Cardinality({n \in DOMAIN v : v[n] = k - 1})]

\* line 141: degree(data.edge_index[1], num_nodes=data.x.shape[0]); an absent
\* attribute raises, as degree itself may
PrimaryDegree(g) ==
    IF g.edge_index = <<>> \/ g.x = <<>>
    THEN [ok |-> FALSE, val |-> <<>>]
    ELSE degree(g.edge_index[1], g.x[1][1])

\* line 143: degree(data.edge_index_lg[1], num_nodes=data.x_g.shape[1])
FallbackDegree(g) ==
    IF g.edge_index_lg = <<>> \/ g.x_g = <<>>
    THEN [ok |-> FALSE, val |-> <<>>]
    ELSE degree(g.edge_index_lg[1], g.x_g[1][2])

\* the graphs of the model: x and x_g are given by their shape, edge_index[1]
\* and edge_index_lg[1] by their entries
Degs == {0, 1, NumBins - 1, MaxDeg}

Targets == {Rep(0, a) \o Rep(1, b) : a \in Degs, b \in 0..1}

LineGraphParts ==
    { [x_g |-> <<>>, edge_index_lg |-> <<>>],
      [x_g |-> << <<1, 2>> >>, edge_index_lg |-> << <<1, 1, 0>> >>],
      [x_g |-> << <<2, 1>> >>, edge_index_lg |-> << <<1>> >>] }

NoLineGraph == [x_g |-> <<>>, edge_index_lg |-> <<>>]

Graph(xx, ei, lg) ==
    [x |-> xx, edge_index |-> ei, x_g |-> lg.x_g, edge_index_lg |-> lg.edge_index_lg]

\* plain graphs; graphs whose x or edge_index is absent, with and without a
\* line graph; graphs whose edge_index names a node x does not have
GraphSet ==
    { Graph(<< <<n, 1>> >>, <<t>>, NoLineGraph) : n \in 1..MaxNodes, t \in Targets }
    \cup { Graph(<<>>, ei, lg) : ei \in {<<>>, << <<0>> >>}, lg \in LineGraphParts }
    \cup { Graph(<< <<1, 1>> >>, ei, lg) : ei \in {<<>>, << <<0, 1>> >>}, lg \in LineGraphParts }

RECURSIVE SeqsUpTo(_, _)
SeqsUpTo(S, n) ==
    IF n = 0 THEN {<<>>}
    ELSE LET shorter == SeqsUpTo(S, n - 1)
         IN  shorter \cup {Append(s, e) : s \in {t \in shorter : Len(t) = n - 1}, e \in S}

IdleRun ==
    /\ cfg = <<>>
    /\ transforms = <<>>
    /\ angle_mode = ""
    /\ bound = {}
    /\ ctor = <<>>
    /\ outcome = "idle"
    /\ rpc = "idle"

IdleFwd ==
    /\ num_layers = 0
    /\ mol_data = FALSE
    /\ training = FALSE
    /\ layer = 0
    /\ h = 0
    /\ h1 = 0
    /\ h2 = 0
    /\ fresh = 0
    /\ trace = <<>>
    /\ fpc = "idle"

\* lines 133-136: deg = torch.zeros(10), before the loop
HistInit ==
    /\ train_list \in SeqsUpTo(GraphSet, MaxGraphs)
    /\ idx = 0
    /\ data = <<>>
    /\ d = <<>>
    /\ deg = Zeros(NumBins)
    /\ warnings = 0
    /\ hpc = "loop"
    /\ IdleRun
    /\ IdleFwd

\* line 138: the for loop takes the next graph
HistFetch ==
    /\ hpc = "loop"
    /\ idx < Len(train_list)
    /\ data' = <<train_list[idx + 1]>>
    /\ idx' = idx + 1
    /\ hpc' = "primary"
    /\ UNCHANGED <<train_list, d, deg, warnings>>
    /\ UNCHANGED <<runVars, fwdVars>>

\* lines 140-142: the inner try; its bare except leads to the fallback
HistPrimary ==
    /\ hpc = "primary"
    /\ LET r == PrimaryDegree(data[1])
       IN  IF r.ok
           THEN d' = r.val /\ hpc' = "accumulate"
           ELSE d' = d /\ hpc' = "fallback"
    /\ UNCHANGED <<train_list, idx, data, deg, warnings>>
    /\ UNCHANGED <<runVars, fwdVars>>

\* HistFallback without the outer try: a failing fallback leaves get_deg_hist
HistFallbackEscapes ==
    /\ hpc = "fallback"
    /\ LET r == FallbackDegree(data[1])
       IN  IF r.ok
           THEN d' = r.val /\ hpc' = "accumulate"
           ELSE d' = d /\ hpc' = "raised"
    /\ UNCHANGED <<train_list, idx, data, deg, warnings>>
    /\ UNCHANGED <<runVars, fwdVars>>

\* line 143: the fallback; an exception here reaches the outer except
HistFallback ==
    /\ hpc = "fallback"
    /\ LET r == FallbackDegree(data[1])
       IN  IF r.ok
           THEN d' = r.val /\ hpc' = "accumulate"
           ELSE d' = d /\ hpc' = "skip"
    /\ UNCHANGED <<train_list, idx, data, deg, warnings>>
    /\ UNCHANGED <<runVars, fwdVars>>

\* line 144: deg += torch.bincount(d, minlength=minlen); the in-place add
\* raises when the operand has more entries than deg, and deg is untouched
HistAccumulate ==
    /\ hpc = "accumulate"
    /\ LET b == bincount(d, Len(deg))
       IN  IF Len(b) = Len(deg)
           THEN deg' = [k \in 1..Len(deg) |-> deg[k] + b[k]] /\ hpc' = "loop"
           ELSE deg' = deg /\ hpc' = "skip"
    /\ UNCHANGED <<train_list, idx, data, d, warnings>>
    /\ UNCHANGED <<runVars, fwdVars>>

\* lines 145-146: the outer bare except prints and the loop goes on
HistSkip ==
    /\ hpc = "skip"
    /\ warnings' = warnings + 1
    /\ hpc' = "loop"
    /\ UNCHANGED <<train_list, idx, data, d, deg>>
    /\ UNCHANGED <<runVars, fwdVars>>

\* line 148: return deg
HistReturn ==
    /\ hpc = "loop"
    /\ idx = Len(train_list)
    /\ hpc' = "done"
    /\ UNCHANGED <<train_list, idx, data, d, deg, warnings>>
    /\ UNCHANGED <<runVars, fwdVars>>

HistNext ==
    \/ HistFetch
    \/ HistPrimary
    \/ HistFallback
    \/ HistAccumulate
    \/ HistSkip
    \/ HistReturn

SpecHist == HistInit /\ [][HistNext]_vars

\* a malformed graph: the primary degree computation and the fallback both fail
Malformed(g) == ~PrimaryDegree(g).ok /\ ~FallbackDegree(g).ok

\* the degree vector get_deg_hist computes for a graph that is not malformed
NodeDegrees(g) == IF PrimaryDegree(g).ok THEN PrimaryDegree(g).val ELSE FallbackDegree(g).val

MalformedIn(list) == {i \in DOMAIN list : Malformed(list[i])}

\* C1: a malformed graph is skipped with a printed warning: while it is the
\* current graph no step changes the histogram or lets an exception out of
\* get_deg_hist, the step back to the loop prints one warning, and
\* get_deg_hist returns only after it has fetched every graph of train_list,
\* with one warning for each malformed graph at least.
C1_MalformedSkipped ==
    /\ [](hpc = "done" =>
            /\ idx = Len(train_list)
            /\ warnings >= Cardinality(MalformedIn(train_list)))
    /\ [](hpc /= "raised")
    /\ [][(data /= <<>> /\ hpc \notin {"loop", "done"} /\ Malformed(data[1])) =>
            /\ deg' = deg
            /\ hpc' \in {"fallback", "skip", "loop"}
            /\ (hpc' = "loop" => warnings' = warnings + 1)]_vars

\* C1 witness: get_deg_hist has returned from a list whose first graph is
\* malformed and whose second graph was counted after it
C1_Witness ==
    /\ hpc = "done"
    /\ Len(train_list) = 2
    /\ Malformed(train_list[1])
    /\ ~Malformed(train_list[2])
    /\ warnings = 1
    /\ deg = bincount(NodeDegrees(train_list[2]), NumBins)
    /\ deg /= Zeros(NumBins)

RECURSIVE SumOver(_, _)
SumOver(S, f) ==
    IF S = {} THEN 0
    ELSE LET e == CHOOSE x \in S : TRUE IN f[e] + SumOver(S \ {e}, f)

\* number of nodes of in-degree k over the graphs of list that are not malformed
NodesOfInDegree(list, k) ==
    LET good == DOMAIN list \ MalformedIn(list)
        per == [i \in good |->
                  Cardinality({n \in DOMAIN NodeDegrees(list[i]) : NodeDegrees(list[i])[n] = k})]
    IN  SumOver(good, per)

\* entry k of a vector, 0 where the vector has no such entry
At(v, k) == IF k + 1 \in DOMAIN v THEN v[k + 1] ELSE 0

\* C5: the vector get_deg_hist returns has at index k the number of nodes of
\* in-degree k, summed over every graph of train_list that is not malformed,
\* graphs with a node of in-degree 10 or more included.
C5_InDegreeHistogram ==
    hpc = "done" =>
        \A k \in 0..MaxDeg + MaxNodes : At(deg, k) = NodesOfInDegree(train_list, k)

\* C5 restricted to lists in which every in-degree is below the 10 bins
C5_BelowBins ==
    (hpc = "done" /\ \A i \in DOMAIN train_list \ MalformedIn(train_list) :
                        \A n \in DOMAIN NodeDegrees(train_list[i]) :
                            NodeDegrees(train_list[i])[n] < NumBins) =>
        \A k \in 0..MaxDeg + MaxNodes : At(deg, k) = NodesOfInDegree(train_list, k)

(***************************************************************************)
(* run                                                                     *)
(***************************************************************************)
\* the keys of the dict mapping of lines 222-234 and the transform of each
RdkitMapping ==
    [k \in {"distance_matrix", "3d_coord", "2d_coord", "pharm3d", "bounds_matrix_upper",
            "bounds_matrix_lower", "bounds_matrix_both"} |->
        CASE k = "distance_matrix" -> "Set_Distance_Matrix"
          [] k = "3d_coord" -> "Set_3DCoord_Distance"
          [] k = "2d_coord" -> "Set_2DCoord_Distance"
          [] k = "pharm3d" -> "Set_Pharm3D_Distance"
          [] k = "bounds_matrix_upper" -> "Set_BoundsMatUpper_Distance"
          [] k = "bounds_matrix_lower" -> "Set_BoundsMatLower_Distance"
          [] k = "bounds_matrix_both" -> "Set_BoundsMatBoth_Distance"]

\* the values of add_rdkit_dist of the model: the default False, the seven
\* kinds, and two values that are truthy and no key of the mapping
RdkitValues == {"False"} \cup DOMAIN RdkitMapping \cup {"True", "eigen"}

\* Python truth value of an add_rdkit_dist value
Truthy(v) == v /= "False"

\* the dataset names the if/elif chain of lines 311-347 has a branch for
HandledDatasets == {"ogbg-ppa", "ogbg-molhiv", "ogbg-molpcba", "ogbg-code", "ZINC", "QM9"}

DatasetNames == HandledDatasets \cup {"ogbg-molesol", "PROTEINS"}

\* 'ogb' in dataset_name
HasOgb(name) == name \in {"ogbg-ppa", "ogbg-molhiv", "ogbg-molpcba", "ogbg-code", "ogbg-molesol"}

ModelNames == {"deepergcn", "smp", "dimenet"}

\* linegraph_angle_mode: the default and one other mode
AngleModes == {"center_both", "lowest"}

Configs ==
    [dataset_name : DatasetNames, model : ModelNames, add_ppr_dist : BOOLEAN,
     add_rdkit_dist : RdkitValues, linegraph_dist : BOOLEAN, linegraph_angle : BOOLEAN,
     linegraph_angle_mode : AngleModes, conv : {"gen", "pna"}]

\* an element of the list transforms: the class and, for the angle transform,
\* the mode it was constructed with
T(name) == [name |-> name, mode |-> "n/a"]

TMode(name, mode) == [name |-> name, mode |-> mode]

Names(ts) == [i \in DOMAIN ts |-> ts[i].name]

Count(ts, name) == Cardinality({i \in DOMAIN ts : ts[i].name = name})

NotCalled == [called |-> FALSE, ok |-> FALSE, args |-> <<>>]

IdleHist ==
    /\ train_list = <<>>
    /\ idx = 0
    /\ data = <<>>
    /\ d = <<>>
    /\ deg = <<>>
    /\ warnings = 0
    /\ hpc = "idle"

\* run is entered with a configuration; transforms = [] (line 206)
RunInit ==
    /\ cfg \in Configs
    /\ transforms = <<>>
    /\ angle_mode = cfg.linegraph_angle_mode
    /\ bound = {}
    /\ ctor = NotCalled
    /\ outcome = "running"
    /\ rpc = "dist"
    /\ IdleHist
    /\ IdleFwd

Raise(exc) == outcome' = exc /\ rpc' = "done"

\* lines 213-218: the graph-to-molecule transform of the dataset, if it has one
MolTransform(name) ==
    IF HasOgb(name) THEN <<T("Graph_To_Mol")>>
    ELSE IF name = "ZINC" THEN <<T("ZINC_Graph_To_Mol")>>
    ELSE IF name = "QM9" THEN <<T("QM9_Graph_To_Mol")>>
    ELSE <<>>

\* line 235 with every kind taken as known: an unknown kind raises nothing
RdkitKnownSilent(kind) == TRUE

\* line 235: add_rdkit_dist in mapping
RdkitKnown(kind) == kind \in DOMAIN RdkitMapping

\* lines 208-247: the distance transforms
RunDistTransforms ==
    /\ rpc = "dist"
    /\ LET ppr == IF cfg.add_ppr_dist THEN <<T("Set_PPR_Distance")>> ELSE <<>>
           mol == IF Truthy(cfg.add_rdkit_dist) THEN MolTransform(cfg.dataset_name) ELSE <<>>
           known == RdkitKnown(cfg.add_rdkit_dist)
           rdk == IF Truthy(cfg.add_rdkit_dist) /\ cfg.add_rdkit_dist \in DOMAIN RdkitMapping
                  THEN <<T(RdkitMapping[cfg.add_rdkit_dist]), T("Set_Edge_Dist")>>
                  ELSE <<>>
           fin == IF cfg.add_ppr_dist \/ Truthy(cfg.add_rdkit_dist)
                  THEN <<T("Finalize_Dist_Basis")>> ELSE <<>>
       IN  IF Truthy(cfg.add_rdkit_dist) /\ ~known
           THEN /\ transforms' = ppr \o mol
                /\ Raise("NotImplementedError")
           ELSE /\ transforms' = ppr \o mol \o rdk \o fin
                /\ outcome' = outcome
                /\ rpc' = "linegraph"
    /\ UNCHANGED <<cfg, angle_mode, bound, ctor>>
    /\ UNCHANGED <<histVars, fwdVars>>

\* line 268: the mode is dropped when an RDKit distance other than
\* bounds_matrix_both was added
IgnoreAngleMode(c) == Truthy(c.add_rdkit_dist) /\ c.add_rdkit_dist /= "bounds_matrix_both"

\* lines 249-279: where the distance goes, and the line-graph edge attributes
RunLinegraphTransforms ==
    /\ rpc = "linegraph"
    /\ LET where == IF cfg.add_ppr_dist \/ Truthy(cfg.add_rdkit_dist)
                    THEN IF cfg.linegraph_dist
                         THEN <<T("Add_Linegraph"), T("Set_Linegraph_NodeAttr_Distance")>>
                         ELSE <<T("Set_Graph_EdgeAttr_Distance")>>
                    ELSE <<>>
           mode == IF cfg.linegraph_dist /\ cfg.linegraph_angle /\ IgnoreAngleMode(cfg)
                   THEN "None" ELSE angle_mode
           lg == IF cfg.linegraph_dist
                 THEN IF cfg.linegraph_angle
                      THEN <<TMode("Set_Linegraph_EdgeAttr_Angle", mode)>>
                      ELSE <<T("Set_Linegraph_EdgeAttr")>>
                 ELSE <<>>
       IN  /\ transforms' = transforms \o where \o lg
           /\ angle_mode' = mode
    /\ rpc' = "final"
    /\ UNCHANGED <<cfg, bound, ctor, outcome>>
    /\ UNCHANGED <<histVars, fwdVars>>

\* lines 281-288: Remove_Distances, and RemoveTargets for QM9
RunFinalTransforms ==
    /\ rpc = "final"
    /\ transforms' = transforms \o <<T("Remove_Distances")>>
                        \o (IF cfg.dataset_name = "QM9" THEN <<T("RemoveTargets")>> ELSE <<>>)
    /\ rpc' = "load"
    /\ UNCHANGED <<cfg, angle_mode, bound, ctor, outcome>>
    /\ UNCHANGED <<histVars, fwdVars>>

\* icgnn.data_utils.data.get_graphcls_dataset: the splits of a dataset it
\* supports, the not-implemented signal for any other name
get_graphcls_dataset(name) ==
    IF name \in HandledDatasets THEN "splits" ELSE "NotImplementedError"

\* lines 290-308: load the dataset and transform the training split
RunLoadDataset ==
    /\ rpc = "load"
    /\ IF get_graphcls_dataset(cfg.dataset_name) = "splits"
       THEN outcome' = outcome /\ rpc' = "prepare"
       ELSE Raise(get_graphcls_dataset(cfg.dataset_name))
    /\ UNCHANGED <<cfg, transforms, angle_mode, bound, ctor>>
    /\ UNCHANGED <<histVars, fwdVars>>

\* lines 311-351: the locals each branch of the dataset chain assigns
PreparedLocals(name) ==
    (IF name = "ogbg-ppa" THEN {"num_tasks", "multi_class"}
     ELSE IF name \in {"ogbg-molhiv", "ogbg-molpcba"}
          THEN {"num_tasks", "multi_class", "node_feat_dim"}
     ELSE IF name = "ogbg-code" THEN {"node_encoder", "arr2seq", "multi_class", "num_tasks"}
     ELSE IF name \in {"ZINC", "QM9"}
          THEN {"num_tasks", "multi_class", "task_type", "eval_metric", "node_feat_dim"}
     ELSE {})
    \cup (IF HasOgb(name) THEN {"task_type", "eval_metric"} ELSE {})

\* lines 310-355: dataset-specific preparation; the prints of lines 353-355
\* read multi_class, num_tasks, task_type and eval_metric
RunPrepareDataset ==
    /\ rpc = "prepare"
    /\ bound' = bound \cup PreparedLocals(cfg.dataset_name)
    /\ IF {"multi_class", "num_tasks", "task_type", "eval_metric"} \subseteq bound'
       THEN outcome' = outcome /\ rpc' = "attrs"
       ELSE Raise("UnboundLocalError")
    /\ UNCHANGED <<cfg, transforms, angle_mode, ctor>>
    /\ UNCHANGED <<histVars, fwdVars>>

\* lines 357-403: edge_attr_dim, deg_hist (get_deg_hist when conv is 'pna'),
\* the loaders, the loss, and the line-graph basis dimensions
RunEdgeAttr ==
    /\ rpc = "attrs"
    /\ bound' = bound \cup {"edge_attr_dim", "deg_hist", "mol_data", "code_data"}
                      \cup (IF cfg.linegraph_dist THEN {"lg_node_basis", "lg_edge_basis"} ELSE {})
    /\ rpc' = "model"
    /\ UNCHANGED <<cfg, transforms, angle_mode, ctor, outcome>>
    /\ UNCHANGED <<histVars, fwdVars>>

Range(f) == {f[i] : i \in DOMAIN f}

\* DeeperGCN.__init__: the parameters after self, in order
DeeperGCNParams ==
    <<"num_tasks", "num_layers", "dropout", "conv_encode_edge", "hidden_channels",
      "gcn_aggr", "learn_t", "t", "learn_p", "p", "msg_norm", "learn_msg_scale", "norm",
      "mlp_layers", "graph_pooling", "node_feat_dim", "edge_feat_dim", "mol_data",
      "mlp_act", "emb_basis_global", "emb_basis_local", "emb_bottleneck">>

\* DeeperGCN.__init__: the parameters without a default
DeeperGCNRequired == {"num_tasks"}

\* lines 423-427: the positional arguments of the DeeperGCN(...) call
CallPositional ==
    <<"num_tasks", "num_layers", "dropout", "block", "conv_encode_edge",
      "add_virtual_node", "hidden_channels", "conv", "gcn_aggr", "learn_t", "t",
      "learn_p", "p", "msg_norm", "learn_msg_scale", "norm", "mlp_layers",
      "graph_pooling">>

\* lines 428-433: the keyword arguments of the call, <<keyword, expression>>
CallKeywords ==
    { <<"node_feat_dim", "node_feat_dim">>, <<"edge_feat_dim", "edge_attr_dim">>,
      <<"mol_data", "mol_data">>, <<"code_data", "code_data">>,
      <<"node_encoder", "node_encoder">>, <<"emb_product", "emb_product">>,
      <<"mlp_act", "mlp_act">>, <<"emb_use_both", "emb_use_both">>,
      <<"deg_hist", "deg_hist">> }

\* Python's binding of a call's arguments to a function's parameters:
\* positional arguments fill the parameters in order; a keyword must name a
\* parameter no positional argument filled; parameters without a default must
\* be filled.  Anything else raises TypeError.
Bind(params, required, pos, kws) ==
    LET byPos == {params[i] : i \in DOMAIN params \cap DOMAIN pos}
        byKw == {kw[1] : kw \in kws}
        good == /\ Len(pos) <= Len(params)
                /\ byKw \subseteq Range(params)
                /\ byKw \cap byPos = {}
                /\ required \subseteq byPos \cup byKw
    IN  [called |-> TRUE,
         ok |-> good,
         args |-> IF good
                  THEN [q \in byPos \cup byKw |->
                          IF q \in byPos
                          THEN pos[CHOOSE i \in DOMAIN params : params[i] = q]
                          ELSE (CHOOSE kw \in kws : kw[1] = q)[2]]
                  ELSE <<>>]

\* lines 405-460: the model of the configured name, NotImplementedError for
\* any other name.  The arguments of a call are evaluated before the call:
\* node_feat_dim is read in every branch, lg_node_basis and lg_edge_basis in
\* the line-graph branches.
RunCreateModel ==
    /\ rpc = "model"
    /\ IF cfg.model \in {"deepergcn", "smp"}
       THEN IF ~({"node_feat_dim", "edge_attr_dim"} \subseteq bound)
            THEN ctor' = ctor /\ Raise("UnboundLocalError")
            ELSE IF cfg.model = "deepergcn" /\ ~cfg.linegraph_dist
                 THEN /\ ctor' = Bind(DeeperGCNParams, DeeperGCNRequired,
                                      CallPositional, CallKeywords)
                      /\ IF ctor'.ok
                         THEN outcome' = outcome /\ rpc' = "train"
                         ELSE Raise("TypeError")
                 ELSE ctor' = ctor /\ outcome' = outcome /\ rpc' = "train"
       ELSE ctor' = ctor /\ Raise("NotImplementedError")
    /\ UNCHANGED <<cfg, transforms, angle_mode, bound>>
    /\ UNCHANGED <<histVars, fwdVars>>

\* lines 463-501: optimizer, schedulers, evaluator, train_eval_model
RunTrain ==
    /\ rpc = "train"
    /\ outcome' = "ok"
    /\ rpc' = "done"
    /\ UNCHANGED <<cfg, transforms, angle_mode, bound, ctor>>
    /\ UNCHANGED <<histVars, fwdVars>>

RunNext ==
    \/ RunDistTransforms
    \/ RunLinegraphTransforms
    \/ RunFinalTransforms
    \/ RunLoadDataset
    \/ RunPrepareDataset
    \/ RunEdgeAttr
    \/ RunCreateModel
    \/ RunTrain

SpecRun == RunInit /\ [][RunNext]_vars

\* the configurations the claims call unsupported
UnsupportedRdkit(c) == Truthy(c.add_rdkit_dist) /\ c.add_rdkit_dist \notin DOMAIN RdkitMapping

UnsupportedModel(c) == c.model \notin {"deepergcn", "smp"}

UnsupportedDataset(c) ==
    c.dataset_name \notin {"ogbg-ppa", "ogbg-molhiv", "ogbg-molpcba", "ogbg-code", "ZINC", "QM9"}

C4Names ==
    {"num_layers", "dropout", "conv_encode_edge", "hidden_channels", "gcn_aggr", "learn_t",
     "t", "learn_p", "p", "msg_norm", "learn_msg_scale", "norm", "mlp_layers",
     "graph_pooling", "node_feat_dim", "edge_feat_dim", "mol_data", "mlp_act"}

C4Expression(n) == IF n = "edge_feat_dim" THEN "edge_attr_dim" ELSE n

\* C4: with model 'deepergcn' and linegraph_dist false the DeeperGCN(...)
\* call succeeds and binds each named hyperparameter to the constructor
\* parameter of the same name.
C4_HyperparametersBound ==
    ctor.called =>
        /\ ctor.ok
        /\ outcome /= "TypeError"
        /\ \A n \in C4Names : n \in DOMAIN ctor.args /\ ctor.args[n] = C4Expression(n)

\* C6: in every run that is accepted (it ran to its result) Remove_Distances
\* is in the transform list exactly once and is its last element.
C6_RemoveDistancesLast ==
    (rpc = "done" /\ outcome = "ok") =>
        /\ Count(transforms, "Remove_Distances") = 1
        /\ transforms[Len(transforms)].name = "Remove_Distances"

\* C6 as the code has it: RemoveTargets alone may follow, for QM9 alone
C6_LastButRemoveTargets ==
    (rpc \notin {"dist", "linegraph", "final"} /\ outcome /= "NotImplementedError") =>
        /\ Count(transforms, "Remove_Distances") = 1
        /\ IF cfg.dataset_name = "QM9"
           THEN /\ Len(transforms) >= 2
                /\ Names(transforms)[Len(transforms) - 1] = "Remove_Distances"
                /\ Names(transforms)[Len(transforms)] = "RemoveTargets"
           ELSE Names(transforms)[Len(transforms)] = "Remove_Distances"

LinegraphAttrTransforms ==
    {"Set_Linegraph_NodeAttr_Distance", "Set_Linegraph_EdgeAttr_Angle", "Set_Linegraph_EdgeAttr"}

\* C7: a line-graph attribute transform in the transform list has
\* Add_Linegraph at an earlier position, for every combination of
\* add_ppr_dist, add_rdkit_dist, linegraph_dist and linegraph_angle.
C7_LinegraphCreatedFirst ==
    \A i \in DOMAIN transforms :
        transforms[i].name \in LinegraphAttrTransforms =>
            \E j \in 1..(i - 1) : transforms[j].name = "Add_Linegraph"

\* C7 for the configurations that add a distance
C7_WhenDistanceAdded ==
    (cfg.add_ppr_dist \/ Truthy(cfg.add_rdkit_dist)) => C7_LinegraphCreatedFirst

\* C8: the mode Set_Linegraph_EdgeAttr_Angle is constructed with is the
\* configured linegraph_angle_mode when add_rdkit_dist is
\* 'bounds_matrix_both' and None in every other case.
C8_AngleModeOnlyWithBoundsBoth ==
    \A i \in DOMAIN transforms :
        transforms[i].name = "Set_Linegraph_EdgeAttr_Angle" =>
            transforms[i].mode = IF cfg.add_rdkit_dist = "bounds_matrix_both"
                                 THEN cfg.linegraph_angle_mode ELSE "None"

\* C8 as the code has it: None only for an RDKit distance of another kind
C8_AsCoded ==
    \A i \in DOMAIN transforms :
        transforms[i].name = "Set_Linegraph_EdgeAttr_Angle" =>
            transforms[i].mode = IF cfg.add_rdkit_dist \in {"bounds_matrix_both", "False"}
                                 THEN cfg.linegraph_angle_mode ELSE "None"

(***************************************************************************)
(* DeeperGCN.forward                                                       *)
(* Tensors are identified by the order they are created in; trace records  *)
(* each application of a module or function: its name, its index in gcns   *)
(* or norms (-1 when it has none), its input, the second operand of an     *)
(* addition (0 when there is none) and its output.                         *)
(***************************************************************************)
Ev(op, k, in, res, out) == [op |-> op, k |-> k, in |-> in, res |-> res, out |-> out]

\* __init__, lines 78-104: gcns and norms hold num_layers modules each
FwdInit ==
    /\ num_layers \in 1..MaxLayers
    /\ mol_data \in BOOLEAN
    /\ training \in BOOLEAN
    /\ layer = 0
    /\ h = 0
    /\ h1 = 0
    /\ h2 = 0
    /\ fresh = 1
    /\ trace = <<>>
    /\ fpc = "encode"
    /\ IdleHist
    /\ IdleRun

\* lines 125-134: the node embedding and the edge embeddings
FwdEncode ==
    /\ fpc = "encode"
    /\ trace' = trace \o
          << Ev(IF mol_data THEN "atom_encoder" ELSE "node_features_encoder", -1, 0, 0, fresh),
             Ev("edge_attr_initial", -1, 0, 0, fresh + 1),
             Ev("global_emb_edge_attr", -1, fresh + 1, 0, fresh + 2) >>
    /\ h' = fresh
    /\ fresh' = fresh + 3
    /\ fpc' = "gcn0"
    /\ UNCHANGED <<num_layers, mol_data, training, layer, h1, h2>>
    /\ UNCHANGED <<histVars, runVars>>

\* line 137: h = self.gcns[0](h, ...); then range(1, num_layers) starts at 1
FwdFirstGcn ==
    /\ fpc = "gcn0"
    /\ trace' = Append(trace, Ev("gcns", 0, h, 0, fresh))
    /\ h' = fresh
    /\ fresh' = fresh + 1
    /\ layer' = 1
    /\ fpc' = "loop"
    /\ UNCHANGED <<num_layers, mol_data, training, h1, h2>>
    /\ UNCHANGED <<histVars, runVars>>

\* line 142 with the norm of the layer itself instead of the one before it
NormIndexOfLayer(l) == l

\* line 142: the index into self.norms inside the loop
NormIndex(l) == l - 1

\* lines 139-142: the loop goes on and h1 = self.norms[layer - 1](h)
FwdNorm ==
    /\ fpc = "loop"
    /\ layer < num_layers
    /\ trace' = Append(trace, Ev("norms", NormIndex(layer), h, 0, fresh))
    /\ h1' = fresh
    /\ fresh' = fresh + 1
    /\ fpc' = "relu"
    /\ UNCHANGED <<num_layers, mol_data, training, layer, h, h2>>
    /\ UNCHANGED <<histVars, runVars>>

\* line 144: h2 = F.relu(h1)
FwdRelu ==
    /\ fpc = "relu"
    /\ trace' = Append(trace, Ev("relu", -1, h1, 0, fresh))
    /\ h2' = fresh
    /\ fresh' = fresh + 1
    /\ fpc' = "dropout"
    /\ UNCHANGED <<num_layers, mol_data, training, layer, h, h1>>
    /\ UNCHANGED <<histVars, runVars>>

\* line 145: h2 = F.dropout(h2, ...)
FwdDropout ==
    /\ fpc = "dropout"
    /\ trace' = Append(trace, Ev("dropout", -1, h2, 0, fresh))
    /\ h2' = fresh
    /\ fresh' = fresh + 1
    /\ fpc' = "gcn"
    /\ UNCHANGED <<num_layers, mol_data, training, layer, h, h1>>
    /\ UNCHANGED <<histVars, runVars>>

\* line 146: h = self.gcns[layer](h2, ...) + h, and the loop variable advances
FwdGcn ==
    /\ fpc = "gcn"
    /\ trace' = trace \o << Ev("gcns", layer, h2, 0, fresh),
                            Ev("add", -1, fresh, h, fresh + 1) >>
    /\ h' = fresh + 1
    /\ fresh' = fresh + 2
    /\ layer' = layer + 1
    /\ fpc' = "loop"
    /\ UNCHANGED <<num_layers, mol_data, training, h1, h2>>
    /\ UNCHANGED <<histVars, runVars>>

\* line 149: after the loop, h = self.norms[self.num_layers - 1](h)
FwdLastNorm ==
    /\ fpc = "loop"
    /\ layer >= num_layers
    /\ trace' = Append(trace, Ev("norms", num_layers - 1, h, 0, fresh))
    /\ h' = fresh
    /\ fresh' = fresh + 1
    /\ fpc' = "last_dropout"
    /\ UNCHANGED <<num_layers, mol_data, training, layer, h1, h2>>
    /\ UNCHANGED <<histVars, runVars>>

\* line 150: h = F.dropout(h, ...)
FwdLastDropout ==
    /\ fpc = "last_dropout"
    /\ trace' = Append(trace, Ev("dropout", -1, h, 0, fresh))
    /\ h' = fresh
    /\ fresh' = fresh + 1
    /\ fpc' = "pool"
    /\ UNCHANGED <<num_layers, mol_data, training, layer, h1, h2>>
    /\ UNCHANGED <<histVars, runVars>>

\* lines 152-154: h_graph = self.pool(h, ...); return self.graph_pred_linear(h_graph)
FwdPredict ==
    /\ fpc = "pool"
    /\ trace' = trace \o << Ev("pool", -1, h, 0, fresh),
                            Ev("graph_pred_linear", -1, fresh, 0, fresh + 1) >>
    /\ fresh' = fresh + 2
    /\ fpc' = "done"
    /\ UNCHANGED <<num_layers, mol_data, training, layer, h, h1, h2>>
    /\ UNCHANGED <<histVars, runVars>>

FwdNext ==
    \/ FwdEncode
    \/ FwdFirstGcn
    \/ FwdNorm
    \/ FwdRelu
    \/ FwdDropout
    \/ FwdGcn
    \/ FwdLastNorm
    \/ FwdLastDropout
    \/ FwdPredict

SpecFwd == FwdInit /\ [][FwdNext]_vars

\* the applications after the three encoders, as <<name, index>>
Applied == [i \in 1..(Len(trace) - 3) |-> <<trace[i + 3].op, trace[i + 3].k>>]

RECURSIVE LayerBlocks(_, _)
\* norms[k-1], relu, dropout, gcns[k], residual addition, for k = from..upto
LayerBlocks(from, upto) ==
    IF from > upto THEN <<>>
    ELSE << <<"norms", from - 1>>, <<"relu", -1>>, <<"dropout", -1>>,
            <<"gcns", from>>, <<"add", -1>> >> \o LayerBlocks(from + 1, upto)

\* the order C3 states for a model of n layers
StatedOrder(n) ==
    << <<"gcns", 0>> >> \o LayerBlocks(1, n - 1)
        \o << <<"norms", n - 1>>, <<"dropout", -1>>, <<"pool", -1>>, <<"graph_pred_linear", -1>> >>

Times(op, k) == Cardinality({i \in DOMAIN trace : trace[i].op = op /\ trace[i].k = k})

\* C3: one forward call of a model of num_layers >= 1 layers applies the
\* modules in the stated order: gcns[0] first, with no norm before it and no
\* residual; for k = 1..num_layers-1 norms[k-1], relu, dropout, gcns[k] and
\* the addition of the h that went into norms[k-1]; then norms[num_layers-1],
\* dropout, the pooling and the final linear layer.  Each gcns[k] and each
\* norms[k] is applied exactly once, as are the pooling and the linear layer.
C3_ForwardOrder ==
    fpc = "done" =>
        /\ Applied = StatedOrder(num_layers)
        /\ \A k \in 0..(num_layers - 1) : Times("gcns", k) = 1 /\ Times("norms", k) = 1
        /\ Times("pool", -1) = 1 /\ Times("graph_pred_linear", -1) = 1
        /\ \A i \in DOMAIN trace :
              trace[i].op = "add" =>
                  /\ trace[i - 1].op = "gcns" /\ trace[i].in = trace[i - 1].out
                  /\ trace[i - 4].op = "norms" /\ trace[i].res = trace[i - 4].in
        /\ \A i \in 5..Len(trace) :
              trace[i].op /= "add" => trace[i].in = trace[i - 1].out

\* C3 witness: a forward call of a three-layer model has returned, its loop
\* having run twice
C3_Witness ==
    /\ fpc = "done"
    /\ num_layers = 3
    /\ layer = 3
    /\ Len(trace) = 18
    /\ trace[Len(trace)].op = "graph_pred_linear"

====
